---- MODULE Spec2Model ----
(***************************************************************************)
(* State-machine model of LED_Heart.ino: the interrupt-driven button       *)
(* classifier (determineButtonEvent / signalButtonStateChange), the        *)
(* top-level mode machine (loop), brightness persistence (setup,           *)
(* leaveBrightnessAdjustment) and the frame-rate-limited animation runner  *)
(* (runAnimation, advanceAnimation, transitionToNextAnimation).            *)
(*                                                                         *)
(* One call of loop() is modelled by the steps                             *)
(*   LoopNoChange                      (flag clear: whole iteration)       *)
(*   LoopTest -> ClearFlag -> FirstRead -> (Delay -> Sample)+ -> Classify  *)
(* so that the interrupt handler (PinChange) can run between any two of    *)
(* them.  Reads and writes of the volatile globals are word-atomic.        *)
(***************************************************************************)
EXTENDS Integers, Sequences, FiniteSets, TLC

VARIABLES
  clock,                \* millis(): free-running 32-bit millisecond counter
  pin,                  \* digitalRead(BUTTON_PIN) == LOW
  eeprom,               \* EEPROM byte at BRIGHTNESS_EEPROM_ADDRESS
  gButtonDidChange,
  gButtonEventTime,
  gBrightness,
  fastLEDBrightness,    \* FastLED global brightness (uint8_t)
  leds,                 \* pixel buffer contents (abstracted)
  sCurrentState,
  sButtonIsPressed,
  sButtonPressedTime,
  sButtonReleasedTime,
  sPendingReleaseCount,
  pc,                   \* position inside loop()/determineButtonEvent()
  now,                  \* local of determineButtonEvent
  oldButtonIsPressed,   \* local of determineButtonEvent
  matchingReadCount,    \* local of determineButtonEvent
  ctxState,             \* gAnimationContext.state
  stepFunction,         \* gAnimationContext.stepFunction (index into the list)
  frameDelay,           \* gAnimationContext.frameDelay
  stepFunctionPrivate,  \* gAnimationContext.stepFunctionPrivate (abstracted)
  frameIndex,           \* static of advanceAnimation
  lastCallTime,         \* static of advanceAnimation
  heat,                 \* static of animationStepFunctionFire2012 (abstracted)
  step,                 \* history: kind of the last step taken
  buttonEvent,          \* history: event returned by the last completed poll
  hist                  \* history: observations used to state the properties

vars == << clock, pin, eeprom, gButtonDidChange, gButtonEventTime, gBrightness,
           fastLEDBrightness, leds, sCurrentState, sButtonIsPressed,
           sButtonPressedTime, sButtonReleasedTime, sPendingReleaseCount,
           pc, now, oldButtonIsPressed, matchingReadCount,
           ctxState, stepFunction, frameDelay, stepFunctionPrivate,
           frameIndex, lastCallTime, heat, step, buttonEvent, hist >>

----------------------------------------------------------------------------
\* Program constants

BUTTON_LONG_PRESS_INTERVAL_MILLISECONDS == 2000
BUTTON_DOUBLE_PRESS_INTERVAL_MILLISECONDS == 250
BRIGHTNESS_MIN == 10
BRIGHTNESS_MAX == 100
BRIGHTNESS_DEFAULT == 20
BRIGHTNESS_INCREMENT == 10
BRIGHTNESS_FLASHLIGHT == 200
EEPROM_UNDEFINED_VALUE == 255
LED_COUNT == 31
DebounceReads == 3
DefaultFrameDelay == 25
HEAT_CELL_COUNT == 8

\* uint8_t is 8 bits wide.  unsigned long is 32 bits wide: a value is kept as
\* the pair << high 16 bits, low 16 bits >>
ByteRange == 2^8
HalfRange == 2^16

\* The list of step functions, 0-based as in the source; entry 5 is the NULL
\* terminator.
kAllAnimationStepFunctions ==
  [i \in 0..5 |-> << "Rainbow", "RainbowCycle", "InsideOut", "Fire2012",
                     "TheaterChaseRainbow", "NULL" >>[i + 1]]

kAnimationStepFunctionFrameDelays ==
  [i \in 0..4 |-> << 25, 25, 30, 30, 60 >>[i + 1]]

----------------------------------------------------------------------------
\* Arithmetic of the fixed-width types

\* the unsigned long with value n, 0 <= n < 2^31
ULong(n) == << n \div HalfRange, n % HalfRange >>

\* unsigned long subtraction a - b, wrapping at 2^32
USub(a, b) ==
  LET lo == a[2] - b[2]
      borrow == IF lo < 0 THEN 1 ELSE 0
  IN  << (a[1] - b[1] - borrow + HalfRange) % HalfRange,
         (lo + HalfRange) % HalfRange >>

\* unsigned long addition a + b, wrapping at 2^32
UAdd(a, b) ==
  LET lo == a[2] + b[2]
  IN  << (a[1] + b[1] + lo \div HalfRange) % HalfRange, lo % HalfRange >>

\* unsigned comparisons of an unsigned long a with a constant n < 2^16
ULess(a, n) == a[1] = 0 /\ a[2] < n
UGreater(a, n) == a[1] > 0 \/ a[2] > n

\* conversion of an int to uint8_t
ToByte(x) == x % ByteRange

----------------------------------------------------------------------------
\* Bounds of the model

MaxEvents == 5         \* pin transitions and clock advances per run
MaxBounces == 1        \* of these, pin transitions inside an iteration of loop()
MaxBoots == 1          \* power cycles per run (specifications with Boot)
MaxAnimTicks == 4      \* clock advances per run of SpecAnim
MaxFrames == 2         \* frames per run of SpecFrames
WrapLead == 100        \* a boot may find the clock this far before its wrap

\* millis() at boot
BootClocks == {ULong(0), USub(ULong(0), ULong(WrapLead))}

\* the time that may pass between two iterations of loop()
TickDeltas == {250, 2000}

\* the bytes a boot may find in storage
EepromValues == {EEPROM_UNDEFINED_VALUE, 0, 5, 10, 100, 105, 254}

NoEvent == [type |-> "None", releaseCount |-> 0]

----------------------------------------------------------------------------
\* determineButtonEvent: the decisions

\* line 346: the release belongs to the open group
InGroupingWindow(n, releasedTime) ==
  ULess(USub(n, releasedTime), BUTTON_DOUBLE_PRESS_INTERVAL_MILLISECONDS)

\* lines 345-350
PendingAfterRelease(n, releasedTime, pending) ==
  IF InGroupingWindow(n, releasedTime) THEN pending + 1 ELSE 1

\* lines 358-359
LongPressDue(n, pressedTime) ==
  UGreater(USub(n, pressedTime), BUTTON_LONG_PRESS_INTERVAL_MILLISECONDS)

\* lines 364-365
ReleaseDue(n, releasedTime) ==
  UGreater(USub(n, releasedTime), BUTTON_DOUBLE_PRESS_INTERVAL_MILLISECONDS)

\* lines 344-356: the flag was set and the pin has been debounced.
\* Gives the event and the new values of the statics.
ClassifyChange(old, new, n, eventTime, pressedTime, releasedTime, pending) ==
  IF old /\ ~new
    THEN [event |-> NoEvent,
          pressedTime |-> ULong(0),
          releasedTime |-> eventTime,
          pending |-> PendingAfterRelease(n, releasedTime, pending)]
  ELSE IF ~old /\ new
    THEN [event |-> [type |-> "Pressed", releaseCount |-> 0],
          pressedTime |-> eventTime,
          releasedTime |-> releasedTime,
          pending |-> pending]
  ELSE [event |-> NoEvent,
        pressedTime |-> pressedTime,
        releasedTime |-> releasedTime,
        pending |-> pending]

\* ClassifyQuiet with line 361 left out: the press time survives a long press
ClassifyQuietKeepsPressTime(n, pressedTime, releasedTime, pending) ==
  IF pressedTime # ULong(0) /\ LongPressDue(n, pressedTime)
    THEN [event |-> [type |-> "LongPressed", releaseCount |-> 0],
          pressedTime |-> pressedTime,
          releasedTime |-> releasedTime,
          pending |-> pending]
    ELSE [event |-> NoEvent, pressedTime |-> pressedTime,
          releasedTime |-> releasedTime, pending |-> pending]

\* lines 357-370: the flag was not set
ClassifyQuiet(n, pressedTime, releasedTime, pending) ==
  IF pressedTime # ULong(0)
    THEN IF LongPressDue(n, pressedTime)
           THEN [event |-> [type |-> "LongPressed", releaseCount |-> 0],
                 pressedTime |-> ULong(0),
                 releasedTime |-> releasedTime,
                 pending |-> pending]
           ELSE [event |-> NoEvent, pressedTime |-> pressedTime,
                 releasedTime |-> releasedTime, pending |-> pending]
  ELSE IF pending # 0
    THEN IF ReleaseDue(n, releasedTime)
           THEN [event |-> [type |-> "Released", releaseCount |-> pending],
                 pressedTime |-> pressedTime,
                 releasedTime |-> releasedTime,
                 pending |-> 0]
           ELSE [event |-> NoEvent, pressedTime |-> pressedTime,
                 releasedTime |-> releasedTime, pending |-> pending]
  ELSE [event |-> NoEvent, pressedTime |-> pressedTime,
        releasedTime |-> releasedTime, pending |-> pending]

----------------------------------------------------------------------------
\* The step functions: the pixel indices a frame writes

\* lines 96-115: the groups of pixels from top to bottom (1-based here)
axisTopToBottom ==
  << << 0, 1, 2, 3 >>,
     << 4, 5, 6, 7, 8, 9 >>,
     << 10, 11, 12, 13, 14, 15 >>,
     << 16, 17, 18, 19, 20 >>,
     << 21, 22, 23, 24 >>,
     << 25, 26, 27 >>,
     << 28, 29 >>,
     << 30 >> >>

\* lines 117-127
axisBottomToTop ==
  [i \in 1..Len(axisTopToBottom) |-> axisTopToBottom[Len(axisTopToBottom) + 1 - i]]

\* lines 130-137
axisInsideToOutside ==
  << << 5, 8, 11, 14, 17, 19, 22, 23, 26 >>,
     << 0, 1, 2, 3, 4, 6, 7, 9, 10, 12, 13, 15, 16, 18, 20, 21, 24, 25, 27,
        28, 29, 30 >> >>

\* the indices listed in a group
GroupPixels(group) == {group[j] : j \in 1..Len(group)}

\* lines 415-419 and 423-427: leds[i] for i = 0 .. ledCount - 1
RainbowPixels(frame) == 0..(LED_COUNT - 1)

\* lines 431-440: leds[i + offset] for i = 0, 3, 6, ... < ledCount
TheaterChasePixels(frame) ==
  LET offset == frame % 3
  IN  {i + offset : i \in {k \in 0..(LED_COUNT - 1) : k % 3 = 0}}

\* lines 535-543: the groups of the heat cells
Fire2012Pixels(frame) ==
  UNION {GroupPixels(axisBottomToTop[i + 1]) : i \in 0..(HEAT_CELL_COUNT - 1)}

\* lines 548-566: the two groups from the inside to the outside
InsideOutPixels(frame) ==
  GroupPixels(axisInsideToOutside[1]) \cup GroupPixels(axisInsideToOutside[2])

\* the indices written by a call of step function f with frame index frame
PixelsWritten(f, frame) ==
  CASE f = "Rainbow" -> RainbowPixels(frame)
    [] f = "RainbowCycle" -> RainbowPixels(frame)
    [] f = "InsideOut" -> InsideOutPixels(frame)
    [] f = "Fire2012" -> Fire2012Pixels(frame)
    [] f = "TheaterChaseRainbow" -> TheaterChasePixels(frame)

----------------------------------------------------------------------------
\* The animation runner.  A context is the record
\*   [state, stepFunction, frameDelay, priv, frameIndex, lastCallTime, leds,
\*    heat]
\* of gAnimationContext, the statics of advanceAnimation, the pixel buffer and
\* the heat cells of the fire simulation.

Context ==
  [state |-> ctxState, stepFunction |-> stepFunction, frameDelay |-> frameDelay,
   priv |-> stepFunctionPrivate, frameIndex |-> frameIndex,
   lastCallTime |-> lastCallTime, leds |-> leds, heat |-> heat]

\* FrameGateClosed with the comparison of line 391 turned around
FrameGateInverted(timeDiff, delay) == ~ULess(timeDiff, delay)

\* line 391: the timing gate; TRUE when the call returns without rendering
FrameGateClosed(timeDiff, delay) == ULess(timeDiff, delay)

\* lines 382-387: first call after (re)initialisation
ResetIfNotRunning(c, t) ==
  IF c.state # "Running"
    THEN [c EXCEPT !.state = "Running", !.frameIndex = 0,
                   !.lastCallTime = t, !.priv = "Zero"]
    ELSE c

\* lines 506-527: the heat cells after a frame of step function f.  Only the
\* fire simulation has them; it cools and ignites them at random, so after a
\* frame they may be all zero or not.
HeatAfterFrame(f, h) ==
  IF f = "Fire2012" THEN {"Zero", "Hot"} ELSE {h}

\* lines 378-409, called when millis() is t
AdvanceAnimation(c, t) ==
  LET c1 == ResetIfNotRunning(c, t)
      timeDiff == USub(t, c1.lastCallTime)
  IN  IF FrameGateClosed(timeDiff, c1.frameDelay)
        THEN [ctx |-> c1, rendered |-> FALSE]
        ELSE [ctx |-> [c1 EXCEPT
                        !.leds = << "Frame", c1.stepFunction, c1.frameIndex >>,
                        !.frameIndex = (c1.frameIndex + 1) % ByteRange,
                        !.lastCallTime = t],
              rendered |-> TRUE]

\* RunAnimation without the initialisation of lines 252-259
RunAnimationNoInit(c, t) == AdvanceAnimation(c, t)

\* lines 251-261
RunAnimation(c, t) ==
  LET c0 == IF c.state = "Undefined"
              THEN [c EXCEPT !.state = "Initialized",
                             !.frameDelay = DefaultFrameDelay,
                             !.stepFunction = kAllAnimationStepFunctions[0],
                             !.priv = "Zero"]
              ELSE c
  IN  AdvanceAnimation(c0, t)

\* line 239: the index at which the search loop stops
IndexOfStepFunction(f) ==
  CHOOSE i \in 0..5 : /\ kAllAnimationStepFunctions[i] = f
                      /\ \A j \in 0..(i - 1) : kAllAnimationStepFunctions[j] # f

\* NextAnimationIndex wrapping one entry early
NextAnimationIndexEarlyWrap(i) ==
  IF kAllAnimationStepFunctions[i + 2] # "NULL" THEN i + 1 ELSE 0

\* line 240
NextAnimationIndex(i) ==
  IF kAllAnimationStepFunctions[i + 1] # "NULL" THEN i + 1 ELSE 0

\* lines 236-248.  The possible results: one when the step function is one
\* of the five animations; when it is NULL (a context never initialised) the
\* search stops at the terminator and line 240 reads past the list.
TransitionToNextAnimation(c) ==
  IF \E i \in 0..4 : kAllAnimationStepFunctions[i] = c.stepFunction
    THEN LET i == NextAnimationIndex(IndexOfStepFunction(c.stepFunction))
         IN  {[c EXCEPT !.stepFunction = kAllAnimationStepFunctions[i],
                        !.frameDelay = kAnimationStepFunctionFrameDelays[i],
                        !.state = "Initialized"]}
    ELSE {[c EXCEPT !.stepFunction = f, !.frameDelay = d, !.state = "Initialized"] :
            f \in {kAllAnimationStepFunctions[0], "Garbage"},
            d \in {kAnimationStepFunctionFrameDelays[0], 0}}

----------------------------------------------------------------------------
\* Brightness

\* lines 156-159
BootBrightness(persisted) ==
  IF persisted # EEPROM_UNDEFINED_VALUE THEN persisted ELSE BRIGHTNESS_DEFAULT

\* AdjustBrightness that stops at the limits instead of wrapping around
AdjustBrightnessClamped(b, releaseCount) ==
  LET delta == IF releaseCount = 1 THEN BRIGHTNESS_INCREMENT ELSE -BRIGHTNESS_INCREMENT
      nb == b + delta
  IN  IF nb > BRIGHTNESS_MAX THEN BRIGHTNESS_MAX
      ELSE IF nb < BRIGHTNESS_MIN THEN BRIGHTNESS_MIN
      ELSE nb

\* lines 202-208
AdjustBrightness(b, releaseCount) ==
  LET delta == IF releaseCount = 1 THEN BRIGHTNESS_INCREMENT ELSE -BRIGHTNESS_INCREMENT
      nb == b + delta
  IN  IF nb > BRIGHTNESS_MAX THEN BRIGHTNESS_MIN
      ELSE IF nb < BRIGHTNESS_MIN THEN BRIGHTNESS_MAX
      ELSE nb

\* line 302 (C integer division truncates toward zero; the operands are >= 0)
BrightnessLevel(b) ==
  (b * (BRIGHTNESS_MAX \div BRIGHTNESS_INCREMENT)) \div BRIGHTNESS_MAX - 1

\* lines 300-305
ShowCurrentBrightnessAdjustmentValue(b) == << "White", "Red", BrightnessLevel(b) >>

\* PersistedByte writing the default instead of the chosen value
PersistedByteDefault(b) == ToByte(BRIGHTNESS_DEFAULT)

\* line 283: EEPROM.update takes a uint8_t
PersistedByte(b) == ToByte(b)

----------------------------------------------------------------------------
\* loop(): the switch on sCurrentState, lines 176-231, run with the event ev
\* when millis() is t.  A machine is the record
\*   [mode, brightness, fastLED, eeprom, ctx, rendered, cycled]

Machine ==
  [mode |-> sCurrentState, brightness |-> gBrightness,
   fastLED |-> fastLEDBrightness, eeprom |-> eeprom, ctx |-> Context,
   rendered |-> FALSE, cycled |-> FALSE]

\* lines 178-192
CaseRunningAnimation(m, ev, t) ==
  IF ev.type = "LongPressed"
    THEN {[m EXCEPT !.mode = "EnteringBrightnessAdjustment",
                    !.ctx.leds = ShowCurrentBrightnessAdjustmentValue(m.brightness)]}
  ELSE IF ev.type = "Released"
    THEN IF ev.releaseCount > 1
           THEN {[m EXCEPT !.mode = "RunningFlashlight",
                           !.fastLED = BRIGHTNESS_FLASHLIGHT,
                           !.ctx.leds = << "White" >>]}
           ELSE {[m EXCEPT !.ctx = c, !.cycled = TRUE] :
                    c \in TransitionToNextAnimation(m.ctx)}
  ELSE LET r == RunAnimation(m.ctx, t)
       IN  {[m EXCEPT !.ctx = [r.ctx EXCEPT !.heat = h], !.rendered = r.rendered] :
              h \in IF r.rendered
                      THEN HeatAfterFrame(r.ctx.stepFunction, r.ctx.heat)
                      ELSE {r.ctx.heat}}

\* lines 194-198
CaseEnteringBrightnessAdjustment(m, ev) ==
  IF ev.type = "Released"
    THEN [m EXCEPT !.mode = "RunningBrightnessAdjustment"]
    ELSE m

\* CaseRunningBrightnessAdjustment adjusting on Pressed as well as on Released
CaseRunningBrightnessAdjustmentOnPress(m, ev) ==
  IF ev.type \in {"Released", "Pressed"}
    THEN LET nb == AdjustBrightness(m.brightness, ev.releaseCount)
         IN  [m EXCEPT !.brightness = nb,
                       !.fastLED = ToByte(nb),
                       !.ctx.leds = ShowCurrentBrightnessAdjustmentValue(nb)]
  ELSE IF ev.type = "LongPressed"
    THEN [m EXCEPT !.mode = "EnteringAnimationFromLongPress",
                   !.eeprom = PersistedByte(m.brightness),
                   !.ctx.leds = << "Black" >>]
  ELSE m

\* lines 200-216
CaseRunningBrightnessAdjustment(m, ev) ==
  IF ev.type = "Released"
    THEN LET nb == AdjustBrightness(m.brightness, ev.releaseCount)
         IN  [m EXCEPT !.brightness = nb,
                       !.fastLED = ToByte(nb),
                       !.ctx.leds = ShowCurrentBrightnessAdjustmentValue(nb)]
  ELSE IF ev.type = "LongPressed"
    THEN [m EXCEPT !.mode = "EnteringAnimationFromLongPress",
                   !.eeprom = PersistedByte(m.brightness),
                   !.ctx.leds = << "Black" >>]
  ELSE m

\* lines 218-222
CaseEnteringAnimationFromLongPress(m, ev) ==
  IF ev.type = "Released"
    THEN [m EXCEPT !.mode = "RunningAnimation"]
    ELSE m

\* CaseRunningFlashlight leaving the mode on any event but None
CaseRunningFlashlightAnyEvent(m, ev) ==
  IF ev.type # "None"
    THEN [m EXCEPT !.mode = "RunningAnimation",
                   !.fastLED = ToByte(m.brightness),
                   !.ctx.leds = << "Black" >>]
    ELSE m

\* CaseRunningFlashlight without the call of FastLED.setBrightness (line 295)
CaseRunningFlashlightKeepsBrightness(m, ev) ==
  IF ev.type = "Released"
    THEN [m EXCEPT !.mode = "RunningAnimation",
                   !.ctx.leds = << "Black" >>]
    ELSE m

\* lines 224-229
CaseRunningFlashlight(m, ev) ==
  IF ev.type = "Released"
    THEN [m EXCEPT !.mode = "RunningAnimation",
                   !.fastLED = ToByte(m.brightness),
                   !.ctx.leds = << "Black" >>]
    ELSE m

\* lines 176-231: the possible machines after the switch
StateMachine(m, ev, t) ==
  CASE m.mode = "RunningAnimation" -> CaseRunningAnimation(m, ev, t)
    [] m.mode = "EnteringBrightnessAdjustment" ->
         {CaseEnteringBrightnessAdjustment(m, ev)}
    [] m.mode = "RunningBrightnessAdjustment" ->
         {CaseRunningBrightnessAdjustment(m, ev)}
    [] m.mode = "EnteringAnimationFromLongPress" ->
         {CaseEnteringAnimationFromLongPress(m, ev)}
    [] m.mode = "RunningFlashlight" -> {CaseRunningFlashlight(m, ev)}

----------------------------------------------------------------------------
\* History kept for the properties (not read by the program):
\*   events, bounces, boots  how much of each bound the run has used
\*   elapsed              true milliseconds since boot (never wraps)
\*   edgeAt               elapsed when the interrupt handler last ran, or -1
\*   pressAt              edgeAt of the press last reported as Pressed, or -1
\*   longSincePress       LongPressed events since the last Pressed (capped at 2)
\*   releases             edgeAt of the debounced releases not yet reported
\*   lastRelAt            edgeAt of the last debounced release, or -1
\*   renderAt             elapsed when the last frame was rendered, or -1
\*   rendered             the last step rendered a frame
\*   cycles               calls of transitionToNextAnimation since boot, mod 5
\*   fresh                no frame rendered since the step function last changed

HistAtBoot(events, boots) ==
  [events |-> events, bounces |-> 0, boots |-> boots, elapsed |-> 0,
   edgeAt |-> -1, pressAt |-> -1, longSincePress |-> 0, releases |-> << >>,
   lastRelAt |-> -1, renderAt |-> -1, rendered |-> FALSE, cycles |-> 0,
   fresh |-> TRUE]

\* The history after a step that is no completed poll
Quiet(h) == [h EXCEPT !.rendered = FALSE]

----------------------------------------------------------------------------
\* Boot: the values the globals' initialisers and setup(), lines 147-168,
\* leave, with the byte `persisted` in storage, the pin at level p and
\* millis() at c
Booted(persisted, p, c, h) ==
  [clock |-> c,
   pin |-> p,
   eeprom |-> persisted,
   gButtonDidChange |-> FALSE,
   gButtonEventTime |-> ULong(0),
   gBrightness |-> BootBrightness(persisted),
   fastLEDBrightness |-> ToByte(BootBrightness(persisted)),
   leds |-> << "Black" >>,
   sCurrentState |-> "RunningAnimation",
   sButtonIsPressed |-> FALSE,
   sButtonPressedTime |-> ULong(0),
   sButtonReleasedTime |-> ULong(0),
   sPendingReleaseCount |-> 0,
   pc |-> "loop",
   now |-> ULong(0),
   oldButtonIsPressed |-> FALSE,
   matchingReadCount |-> 0,
   ctxState |-> "Undefined",
   stepFunction |-> "NULL",
   frameDelay |-> 0,
   stepFunctionPrivate |-> "Zero",
   frameIndex |-> 0,
   lastCallTime |-> ULong(0),
   heat |-> "Zero",
   step |-> "boot",
   buttonEvent |-> NoEvent,
   hist |-> h]

\* The variables have the values of the record b
StateIs(b) ==
  /\ clock = b.clock
  /\ pin = b.pin
  /\ eeprom = b.eeprom
  /\ gButtonDidChange = b.gButtonDidChange
  /\ gButtonEventTime = b.gButtonEventTime
  /\ gBrightness = b.gBrightness
  /\ fastLEDBrightness = b.fastLEDBrightness
  /\ leds = b.leds
  /\ sCurrentState = b.sCurrentState
  /\ sButtonIsPressed = b.sButtonIsPressed
  /\ sButtonPressedTime = b.sButtonPressedTime
  /\ sButtonReleasedTime = b.sButtonReleasedTime
  /\ sPendingReleaseCount = b.sPendingReleaseCount
  /\ pc = b.pc
  /\ now = b.now
  /\ oldButtonIsPressed = b.oldButtonIsPressed
  /\ matchingReadCount = b.matchingReadCount
  /\ ctxState = b.ctxState
  /\ stepFunction = b.stepFunction
  /\ frameDelay = b.frameDelay
  /\ stepFunctionPrivate = b.stepFunctionPrivate
  /\ frameIndex = b.frameIndex
  /\ lastCallTime = b.lastCallTime
  /\ heat = b.heat
  /\ step = b.step
  /\ buttonEvent = b.buttonEvent
  /\ hist = b.hist

InitFrom(persistedBytes, clocks) ==
  \E persisted \in persistedBytes, c \in clocks :
    StateIs(Booted(persisted, FALSE, c, HistAtBoot(0, 0)))

\* First boot of a device whose storage byte was never written
Init == InitFrom({EEPROM_UNDEFINED_VALUE}, BootClocks)

\* A power cycle: storage and the pin keep their values
Boot ==
  /\ hist.boots < MaxBoots
  /\ \E c \in {ULong(0)} :
       LET b == Booted(eeprom, pin, c, HistAtBoot(hist.events, hist.boots + 1))
       IN
         /\ clock' = b.clock
         /\ pin' = b.pin
         /\ eeprom' = b.eeprom
         /\ gButtonDidChange' = b.gButtonDidChange
         /\ gButtonEventTime' = b.gButtonEventTime
         /\ gBrightness' = b.gBrightness
         /\ fastLEDBrightness' = b.fastLEDBrightness
         /\ leds' = b.leds
         /\ sCurrentState' = b.sCurrentState
         /\ sButtonIsPressed' = b.sButtonIsPressed
         /\ sButtonPressedTime' = b.sButtonPressedTime
         /\ sButtonReleasedTime' = b.sButtonReleasedTime
         /\ sPendingReleaseCount' = b.sPendingReleaseCount
         /\ pc' = b.pc
         /\ now' = b.now
         /\ oldButtonIsPressed' = b.oldButtonIsPressed
         /\ matchingReadCount' = b.matchingReadCount
         /\ ctxState' = b.ctxState
         /\ stepFunction' = b.stepFunction
         /\ frameDelay' = b.frameDelay
         /\ stepFunctionPrivate' = b.stepFunctionPrivate
         /\ frameIndex' = b.frameIndex
         /\ lastCallTime' = b.lastCallTime
         /\ heat' = b.heat
         /\ step' = b.step
         /\ buttonEvent' = b.buttonEvent
         /\ hist' = b.hist

\* Time passes between two iterations of loop()
Tick ==
  /\ pc = "loop"
  /\ step # "tick"
  /\ hist.events < MaxEvents
  /\ \E d \in TickDeltas :
       /\ clock' = UAdd(clock, ULong(d))
       /\ hist' = [Quiet(hist) EXCEPT !.events = @ + 1, !.elapsed = @ + d]
  /\ step' = "tick"
  /\ buttonEvent' = NoEvent
  /\ UNCHANGED << pin, eeprom, gButtonDidChange, gButtonEventTime, gBrightness,
                  fastLEDBrightness, leds, sCurrentState, sButtonIsPressed,
                  sButtonPressedTime, sButtonReleasedTime, sPendingReleaseCount,
                  pc, now, oldButtonIsPressed, matchingReadCount,
                  ctxState, stepFunction, frameDelay, stepFunctionPrivate,
                  frameIndex, lastCallTime, heat >>

\* The pin changes level and the interrupt handler runs, lines 308-311
PinChange ==
  /\ hist.events < MaxEvents
  /\ pc # "loop" => hist.bounces < MaxBounces
  /\ pin' = ~pin
  /\ gButtonDidChange' = TRUE
  /\ gButtonEventTime' = clock
  /\ hist' = [Quiet(hist) EXCEPT !.events = @ + 1,
                                 !.bounces = IF pc # "loop" THEN @ + 1 ELSE @,
                                 !.edgeAt = hist.elapsed]
  /\ step' = "isr"
  /\ buttonEvent' = NoEvent
  /\ UNCHANGED << clock, eeprom, gBrightness,
                  fastLEDBrightness, leds, sCurrentState, sButtonIsPressed,
                  sButtonPressedTime, sButtonReleasedTime, sPendingReleaseCount,
                  pc, now, oldButtonIsPressed, matchingReadCount,
                  ctxState, stepFunction, frameDelay, stepFunctionPrivate,
                  frameIndex, lastCallTime, heat >>

\* The end of an iteration of loop(): the classifier's result res is stored,
\* the switch runs with its event when millis() is t, and the history is
\* brought up to date.  released: this poll debounced a release.
FinishPoll(res, released, t, h) ==
  \E m \in StateMachine(Machine, res.event, t) :
    /\ sButtonPressedTime' = res.pressedTime
    /\ sButtonReleasedTime' = res.releasedTime
    /\ sPendingReleaseCount' = res.pending
    /\ sCurrentState' = m.mode
    /\ gBrightness' = m.brightness
    /\ fastLEDBrightness' = m.fastLED
    /\ eeprom' = m.eeprom
    /\ leds' = m.ctx.leds
    /\ ctxState' = m.ctx.state
    /\ stepFunction' = m.ctx.stepFunction
    /\ frameDelay' = m.ctx.frameDelay
    /\ stepFunctionPrivate' = m.ctx.priv
    /\ frameIndex' = m.ctx.frameIndex
    /\ lastCallTime' = m.ctx.lastCallTime
    /\ heat' = m.ctx.heat
    /\ pc' = "loop"
    /\ now' = ULong(0)
    /\ oldButtonIsPressed' = FALSE
    /\ matchingReadCount' = 0
    /\ step' = "poll"
    /\ buttonEvent' = res.event
    /\ hist' = [h EXCEPT
         !.pressAt = IF res.event.type = "Pressed" THEN h.edgeAt ELSE @,
         !.longSincePress =
            IF res.event.type = "Pressed" THEN 0
            ELSE IF res.event.type = "LongPressed" /\ @ < 2 THEN @ + 1
            ELSE @,
         !.releases = IF released THEN Append(@, h.edgeAt)
                      ELSE IF res.event.type = "Released" THEN << >>
                      ELSE @,
         !.lastRelAt = IF released THEN h.edgeAt ELSE @,
         !.renderAt = IF m.rendered THEN h.elapsed ELSE @,
         !.rendered = m.rendered,
         !.cycles = IF m.cycled THEN (@ + 1) % 5 ELSE @,
         !.fresh = IF m.cycled THEN TRUE ELSE IF m.rendered THEN FALSE ELSE @]

\* lines 320-326 and 357-372, then the switch: an iteration that finds the
\* flag clear
LoopNoChange ==
  /\ pc = "loop"
  /\ ~gButtonDidChange
  /\ FinishPoll(ClassifyQuiet(clock, sButtonPressedTime, sButtonReleasedTime,
                              sPendingReleaseCount), FALSE, clock, hist)
  /\ UNCHANGED << clock, pin, gButtonDidChange, gButtonEventTime, sButtonIsPressed >>

\* What the steps inside determineButtonEvent leave alone
Internal ==
  UNCHANGED << pin, eeprom, gButtonEventTime, gBrightness,
               fastLEDBrightness, leds, sCurrentState,
               sButtonPressedTime, sButtonReleasedTime, sPendingReleaseCount,
               ctxState, stepFunction, frameDelay, stepFunctionPrivate,
               frameIndex, lastCallTime, heat >>

\* lines 320-326: an iteration that finds the flag set
LoopTest ==
  /\ pc = "loop"
  /\ gButtonDidChange
  /\ now' = clock
  /\ pc' = "clear"
  /\ step' = "test"
  /\ buttonEvent' = NoEvent
  /\ hist' = Quiet(hist)
  /\ Internal
  /\ UNCHANGED << clock, gButtonDidChange, sButtonIsPressed, oldButtonIsPressed,
                  matchingReadCount >>

\* lines 327-331
ClearFlag ==
  /\ pc = "clear"
  /\ gButtonDidChange' = FALSE
  /\ oldButtonIsPressed' = sButtonIsPressed
  /\ matchingReadCount' = 0
  /\ pc' = "read"
  /\ step' = "clear"
  /\ buttonEvent' = NoEvent
  /\ hist' = Quiet(hist)
  /\ Internal
  /\ UNCHANGED << clock, now, sButtonIsPressed >>

\* line 332
FirstRead ==
  /\ pc = "read"
  /\ sButtonIsPressed' = pin
  /\ pc' = "delay"
  /\ step' = "read"
  /\ buttonEvent' = NoEvent
  /\ hist' = Quiet(hist)
  /\ Internal
  /\ UNCHANGED << clock, now, gButtonDidChange, oldButtonIsPressed,
                  matchingReadCount >>

\* line 334
Delay ==
  /\ pc = "delay"
  /\ clock' = UAdd(clock, ULong(1))
  /\ pc' = "sample"
  /\ step' = "delay"
  /\ buttonEvent' = NoEvent
  /\ hist' = [Quiet(hist) EXCEPT !.elapsed = @ + 1]
  /\ Internal
  /\ UNCHANGED << now, gButtonDidChange, sButtonIsPressed, oldButtonIsPressed,
                  matchingReadCount >>

\* lines 333 and 335-341
Sample ==
  /\ pc = "sample"
  /\ LET value == pin
         count == IF value = sButtonIsPressed THEN matchingReadCount + 1 ELSE 0
     IN  /\ sButtonIsPressed' = value
         /\ matchingReadCount' = count
         /\ pc' = IF count < DebounceReads THEN "delay" ELSE "classify"
  /\ step' = "sample"
  /\ buttonEvent' = NoEvent
  /\ hist' = Quiet(hist)
  /\ Internal
  /\ UNCHANGED << clock, now, gButtonDidChange, oldButtonIsPressed >>

\* Classify clearing the flag after the debounce instead of before it
ClassifyClearsFlag ==
  /\ pc = "classify"
  /\ FinishPoll(ClassifyChange(oldButtonIsPressed, sButtonIsPressed, now,
                               gButtonEventTime, sButtonPressedTime,
                               sButtonReleasedTime, sPendingReleaseCount),
                oldButtonIsPressed /\ ~sButtonIsPressed, clock, hist)
  /\ gButtonDidChange' = FALSE
  /\ UNCHANGED << clock, pin, gButtonEventTime, sButtonIsPressed >>

\* lines 344-356 and 372, then the switch
Classify ==
  /\ pc = "classify"
  /\ FinishPoll(ClassifyChange(oldButtonIsPressed, sButtonIsPressed, now,
                               gButtonEventTime, sButtonPressedTime,
                               sButtonReleasedTime, sPendingReleaseCount),
                oldButtonIsPressed /\ ~sButtonIsPressed, clock, hist)
  /\ UNCHANGED << clock, pin, gButtonDidChange, gButtonEventTime, sButtonIsPressed >>

\* The program with its interrupt handler, from the first boot
Next ==
  \/ Tick
  \/ PinChange
  \/ LoopNoChange
  \/ LoopTest
  \/ ClearFlag
  \/ FirstRead
  \/ Delay
  \/ Sample
  \/ Classify

Spec == Init /\ [][Next]_vars

----------------------------------------------------------------------------
\* loop() driven by hand: d milliseconds after the previous iteration,
\* determineButtonEvent returns ev and the switch (lines 176-231) runs.  The
\* first poll after a boot returns None or Pressed (lines 315-318, 344-370:
\* the statics start at 0).
LoopWith(ev, d) ==
  /\ pc = "loop"
  /\ step = "boot" => ev.type \in {"None", "Pressed"}
  /\ clock' = UAdd(clock, ULong(d))
  /\ FinishPoll([event |-> ev, pressedTime |-> sButtonPressedTime,
                 releasedTime |-> sButtonReleasedTime,
                 pending |-> sPendingReleaseCount],
                FALSE, UAdd(clock, ULong(d)),
                [hist EXCEPT !.elapsed = @ + d,
                             !.events = IF d > 0 THEN @ + 1 ELSE @])
  /\ UNCHANGED << pin, gButtonDidChange, gButtonEventTime, sButtonIsPressed >>

\* The mode machine under every event sequence, for every storage byte.
\* The iterations follow each other within one millisecond.
MachineEvents ==
  {[type |-> t, releaseCount |-> 0] : t \in {"None", "Pressed", "LongPressed"}}
    \cup {[type |-> "Released", releaseCount |-> n] : n \in 1..3}

InitMachine == InitFrom(EepromValues, {ULong(0)})

MachineLoop == \E ev \in MachineEvents : LoopWith(ev, 0)

NextMachine == MachineLoop \/ Boot

SpecMachine == InitMachine /\ [][NextMachine]_vars

\* The animation runner called at arbitrary times, with changes of animation
\* and stays in flashlight mode
AnimEvents ==
  {NoEvent} \cup {[type |-> "Released", releaseCount |-> n] : n \in 1..2}

AnimDeltas == {0, 1, 29, 59}

AnimLoop ==
  \E ev \in AnimEvents, d \in AnimDeltas :
    /\ d > 0 => hist.events < MaxAnimTicks
    /\ LoopWith(ev, d)

NextAnim == AnimLoop

SpecAnim == Init /\ [][NextAnim]_vars

\* The step functions called with every frame index: the runner is Running
\* with step function i of the list, its frame index (a uint8_t that wraps)
\* at any value, and is called whenever a frame is due
InitFrames ==
  \E i \in 0..4, k \in 0..(ByteRange - 1) :
    StateIs([Booted(EEPROM_UNDEFINED_VALUE, FALSE, ULong(0),
                    [HistAtBoot(0, 0) EXCEPT !.cycles = i, !.fresh = (k = 0)])
               EXCEPT !.ctxState = "Running",
                      !.stepFunction = kAllAnimationStepFunctions[i],
                      !.frameDelay = kAnimationStepFunctionFrameDelays[i],
                      !.frameIndex = k])

FrameLoop ==
  /\ hist.events < MaxFrames
  /\ LoopWith(NoEvent, kAnimationStepFunctionFrameDelays[4])

NextFrames == FrameLoop

SpecFrames == InitFrames /\ [][NextFrames]_vars

----------------------------------------------------------------------------
\* Properties

Released1 == [type |-> "Released", releaseCount |-> 1]

\* The step completes an iteration of loop()
PollDone == step' = "poll"

\* The step completes an iteration of loop() that called advanceAnimation
AdvanceCalled ==
  /\ PollDone
  /\ sCurrentState = "RunningAnimation"
  /\ buttonEvent'.type \notin {"LongPressed", "Released"}

\* C1: determineButtonEvent returns Pressed only at the end of a poll that
\* debounced the pin and found the level changed from not pressed (the level
\* stored before the poll) to pressed; and it returns LongPressed at most
\* once after a Pressed and before the next Pressed.
C1_PressedOnTransitionLongPressedOnce ==
  [][ /\ (PollDone /\ buttonEvent'.type = "Pressed")
           => (pc = "classify" /\ ~oldButtonIsPressed /\ sButtonIsPressed')
      /\ (PollDone /\ buttonEvent'.type = "LongPressed")
           => hist.longSincePress = 0
      /\ hist'.longSincePress <= 1 ]_vars

\* C1 witness: a poll during a hold, after the LongPressed of that hold
C1_Witness ==
  /\ step = "poll"
  /\ buttonEvent = NoEvent
  /\ sButtonIsPressed
  /\ pin
  /\ hist.longSincePress = 1

\* C2: when Released is emitted for exactly two debounced releases, the second
\* latched less than 250 ms after the first, its releaseCount is 2 and the
\* poll is more than 250 ms after the second release; and no Released is
\* emitted between the two releases of such a pair.
C2_TwoReleasesOneEvent ==
  [][ /\ ( /\ PollDone
           /\ buttonEvent'.type = "Released"
           /\ Len(hist.releases) = 2
           /\ hist.releases[2] - hist.releases[1]
                < BUTTON_DOUBLE_PRESS_INTERVAL_MILLISECONDS )
           => /\ buttonEvent'.releaseCount = 2
              /\ hist.elapsed - hist.releases[2]
                   > BUTTON_DOUBLE_PRESS_INTERVAL_MILLISECONDS
      /\ ( /\ PollDone
           /\ hist'.lastRelAt # hist.lastRelAt
           /\ hist.lastRelAt >= 0
           /\ hist'.lastRelAt - hist.lastRelAt
                < BUTTON_DOUBLE_PRESS_INTERVAL_MILLISECONDS )
           => hist.releases # << >> ]_vars

\* C3: after every poll that finds the flag clear while a press reported as
\* Pressed is still held and was latched more than 2000 ms ago, LongPressed
\* has been emitted exactly once for that press.
C3_LongPressedExactlyOnce ==
  [][ ( /\ PollDone
        /\ pc = "loop"
        /\ sButtonIsPressed
        /\ pin
        /\ hist.pressAt >= 0
        /\ hist.elapsed - hist.pressAt > BUTTON_LONG_PRESS_INTERVAL_MILLISECONDS )
        => hist'.longSincePress = 1 ]_vars

\* The listed transitions of the mode
ModeEdge(from, ev, to) ==
  \/ /\ from = "RunningAnimation" /\ ev.type = "LongPressed"
     /\ to = "EnteringBrightnessAdjustment"
  \/ /\ from = "RunningAnimation" /\ ev.type = "Released" /\ ev.releaseCount > 1
     /\ to = "RunningFlashlight"
  \/ /\ from = "EnteringBrightnessAdjustment" /\ ev.type = "Released"
     /\ to = "RunningBrightnessAdjustment"
  \/ /\ from = "RunningBrightnessAdjustment" /\ ev.type = "LongPressed"
     /\ to = "EnteringAnimationFromLongPress"
  \/ /\ from = "EnteringAnimationFromLongPress" /\ ev.type = "Released"
     /\ to = "RunningAnimation"
  \/ /\ from = "RunningFlashlight" /\ ev.type = "Released"
     /\ to = "RunningAnimation"

\* C4: within a boot the mode changes only at the end of an iteration of
\* loop(), only along a listed edge and with that edge's event (LongPressed
\* or Released); RunningAnimation with Released(count 1) keeps the mode and
\* runs the cycle operation once.
C4_ModeEdges ==
  [][ /\ (sCurrentState' # sCurrentState /\ step' # "boot")
           => /\ PollDone
              /\ ModeEdge(sCurrentState, buttonEvent', sCurrentState')
      /\ (PollDone /\ sCurrentState = "RunningAnimation" /\ buttonEvent' = Released1)
           => /\ sCurrentState' = "RunningAnimation"
              /\ hist'.cycles = (hist.cycles + 1) % 5
              /\ stepFunction' # stepFunction
              /\ ctxState' = "Initialized"
      /\ (PollDone /\ ~(sCurrentState = "RunningAnimation" /\ buttonEvent' = Released1))
           => hist'.cycles = hist.cycles ]_vars

\* C4 witness: the last edge of a brightness session has been taken
C4_Witness ==
  /\ step = "poll"
  /\ buttonEvent.type = "Released"
  /\ sCurrentState = "RunningAnimation"
  /\ leds = << "Black" >>
  /\ eeprom = BRIGHTNESS_DEFAULT + BRIGHTNESS_INCREMENT

\* C5: when the mode goes from EnteringBrightnessAdjustment to
\* RunningBrightnessAdjustment, or from EnteringAnimationFromLongPress to
\* RunningAnimation, the button is (debounced) not pressed: the release that
\* ended the long press has happened.
C5_ReleaseEndsLongPress ==
  [][ ( \/ /\ sCurrentState = "EnteringBrightnessAdjustment"
           /\ sCurrentState' = "RunningBrightnessAdjustment"
        \/ /\ sCurrentState = "EnteringAnimationFromLongPress"
           /\ sCurrentState' = "RunningAnimation" )
        => ~sButtonIsPressed' ]_vars

\* C6: in RunningBrightnessAdjustment a Released with count 1 adds 10 and a
\* Released with a larger count subtracts 10; a result above 100 becomes 10
\* and a result below 10 becomes 100.
C6_BrightnessWraps ==
  [][ ( /\ PollDone
        /\ sCurrentState = "RunningBrightnessAdjustment"
        /\ buttonEvent'.type = "Released" )
        => LET r == IF buttonEvent'.releaseCount = 1
                      THEN gBrightness + 10 ELSE gBrightness - 10
           IN  /\ gBrightness' = IF r > 100 THEN 10 ELSE IF r < 10 THEN 100 ELSE r
               /\ (gBrightness = 100 /\ buttonEvent'.releaseCount = 1)
                    => gBrightness' = 10
               /\ (gBrightness = 10 /\ buttonEvent'.releaseCount > 1)
                    => gBrightness' = 100 ]_vars

\* C6 witness: a decrement has wrapped from the minimum to the maximum
C6_Witness ==
  /\ step = "poll"
  /\ sCurrentState = "RunningBrightnessAdjustment"
  /\ buttonEvent.type = "Released"
  /\ buttonEvent.releaseCount = 2
  /\ gBrightness = BRIGHTNESS_MAX
  /\ eeprom = BRIGHTNESS_MIN

\* C7: a boot that reads 255 leaves the brightness at 20; the storage byte
\* changes only by RunningBrightnessAdjustment + LongPressed, which writes
\* the brightness of that moment (never 255); and a boot sets the brightness
\* to the stored byte, which it leaves as it is.
C7_PersistRoundTrip ==
  [][ /\ ( /\ PollDone
           /\ sCurrentState = "RunningBrightnessAdjustment"
           /\ buttonEvent'.type = "LongPressed" )
           => (eeprom' = gBrightness /\ eeprom' # EEPROM_UNDEFINED_VALUE)
      /\ eeprom' # eeprom
           => /\ PollDone
              /\ sCurrentState = "RunningBrightnessAdjustment"
              /\ buttonEvent'.type = "LongPressed"
      /\ step' = "boot"
           => /\ eeprom' = eeprom
              /\ gBrightness' = IF eeprom = 255 THEN 20 ELSE eeprom ]_vars

\* C7 witness: a boot has read back a value chosen in an adjustment session
C7_Witness ==
  /\ step = "boot"
  /\ hist.boots = 1
  /\ eeprom = BRIGHTNESS_DEFAULT + BRIGHTNESS_INCREMENT
  /\ gBrightness = BRIGHTNESS_DEFAULT + BRIGHTNESS_INCREMENT

\* C8 as stated: two consecutive rendered frames are at least frameDelay
\* apart; and every call of advanceAnimation made before frameDelay has
\* elapsed since the last rendered frame renders nothing and changes neither
\* the frame index nor the last-render time.
C8_Original ==
  [][ /\ (hist'.rendered /\ hist.renderAt >= 0)
           => hist'.elapsed - hist.renderAt >= frameDelay'
      /\ ( /\ AdvanceCalled
           /\ hist.renderAt >= 0
           /\ hist'.elapsed - hist.renderAt < frameDelay )
           => /\ ~hist'.rendered
              /\ frameIndex' = frameIndex
              /\ lastCallTime' = lastCallTime ]_vars

\* C8, amended: two consecutive rendered frames are at least frameDelay
\* apart; and every call of advanceAnimation made in a context that is
\* already Running, before frameDelay has elapsed since the last rendered
\* frame, renders nothing and changes neither the frame index nor the
\* last-render time.
C8_FrameGate ==
  [][ /\ (hist'.rendered /\ hist.renderAt >= 0)
           => hist'.elapsed - hist.renderAt >= frameDelay'
      /\ ( /\ AdvanceCalled
           /\ ctxState = "Running"
           /\ hist.renderAt >= 0
           /\ hist'.elapsed - hist.renderAt < frameDelay )
           => /\ ~hist'.rendered
              /\ frameIndex' = frameIndex
              /\ lastCallTime' = lastCallTime ]_vars

\* C8 witness: a call in a Running context, later than the last frame but
\* less than frameDelay after it, has returned without rendering
C8_Witness ==
  /\ step = "poll"
  /\ sCurrentState = "RunningAnimation"
  /\ buttonEvent = NoEvent
  /\ ctxState = "Running"
  /\ frameIndex > 0
  /\ ~hist.rendered
  /\ hist.renderAt >= 0
  /\ hist.elapsed > hist.renderAt
  /\ hist.elapsed - hist.renderAt < frameDelay

\* C9: after n calls of transitionToNextAnimation the active step function
\* is entry n mod 5 of the list and frameDelay is the delay stored at that
\* index, in every initialised context; a call leaves the context Initialized.
C9_CyclePairing ==
  [][ /\ ctxState' # "Undefined"
           => /\ stepFunction' = kAllAnimationStepFunctions[hist'.cycles]
              /\ frameDelay' = kAnimationStepFunctionFrameDelays[hist'.cycles]
      /\ hist'.cycles # hist.cycles => ctxState' = "Initialized" ]_vars

\* C9 witness: the fifth call has wrapped from the last animation to the first
C9_Witness ==
  /\ step = "poll"
  /\ buttonEvent = Released1
  /\ hist.cycles = 0
  /\ ctxState = "Initialized"
  /\ stepFunction = "Rainbow"
  /\ frameDelay = 25

\* C10: the configured brightness is in [10,100], whatever byte the boot
\* found in storage and whatever events followed.
C10_BrightnessInRange ==
  gBrightness \in BRIGHTNESS_MIN..BRIGHTNESS_MAX

\* C11: Released with count > 1 in RunningAnimation enters RunningFlashlight,
\* sets the driver brightness to 200 and the strip to white, and leaves the
\* configured brightness and the storage byte alone; Released in
\* RunningFlashlight sets the driver brightness to the configured brightness,
\* clears the strip and returns to RunningAnimation; in every state whose mode
\* is not RunningFlashlight the driver brightness is the configured brightness.
C11_FlashlightBrightness ==
  [][ /\ ( /\ PollDone
           /\ sCurrentState = "RunningAnimation"
           /\ buttonEvent'.type = "Released"
           /\ buttonEvent'.releaseCount > 1 )
           => /\ sCurrentState' = "RunningFlashlight"
              /\ fastLEDBrightness' = 200
              /\ leds' = << "White" >>
              /\ gBrightness' = gBrightness
              /\ eeprom' = eeprom
      /\ ( /\ PollDone
           /\ sCurrentState = "RunningFlashlight"
           /\ buttonEvent'.type = "Released" )
           => /\ sCurrentState' = "RunningAnimation"
              /\ gBrightness' = gBrightness
              /\ fastLEDBrightness' = gBrightness
              /\ leds' = << "Black" >>
      /\ sCurrentState # "RunningFlashlight" => fastLEDBrightness = gBrightness
      /\ sCurrentState' # "RunningFlashlight" => fastLEDBrightness' = gBrightness' ]_vars

\* C11 witness: the flashlight has been left again (the storage byte was
\* never written, so the mode did not come from a brightness session)
C11_Witness ==
  /\ step = "poll"
  /\ buttonEvent.type = "Released"
  /\ sCurrentState = "RunningAnimation"
  /\ ctxState = "Running"
  /\ leds = << "Black" >>
  /\ hist.boots = 0
  /\ eeprom = EEPROM_UNDEFINED_VALUE
  /\ fastLEDBrightness = BRIGHTNESS_DEFAULT

\* C12: a call of determineButtonEvent takes at most three 1 ms debounce
\* samples: while a poll is under way, at most 3 ms have passed since it read
\* millis() at its start.
C12_DebounceBudget ==
  pc # "loop" => ULess(USub(clock, now), 3 + 1)

\* C13: every debounced release is counted in exactly one Released event: the
\* releaseCount of an emitted Released is the number of releases debounced
\* since the previous Released (or since boot).
C13_EveryReleaseCounted ==
  [][ (PollDone /\ buttonEvent'.type = "Released")
        => buttonEvent'.releaseCount = Len(hist.releases) ]_vars

\* C14: a poll that finds the flag clear and does not emit LongPressed, with
\* releases pending and more than 250 ms passed since the last recorded
\* release, emits Released with the accumulated count and resets the counter,
\* whether or not a press is active.
C14_PendingReleaseEmitted ==
  [][ ( /\ PollDone
        /\ pc = "loop"
        /\ ~gButtonDidChange
        /\ buttonEvent'.type # "LongPressed"
        /\ sPendingReleaseCount > 0
        /\ hist.lastRelAt >= 0
        /\ hist.elapsed - hist.lastRelAt > 250 )
        => /\ buttonEvent'.type = "Released"
           /\ buttonEvent'.releaseCount = sPendingReleaseCount
           /\ sPendingReleaseCount' = 0 ]_vars

\* C15: the interrupt handler changes only the flag and the latched time (the
\* pin change itself aside); and between two iterations of loop(), if the
\* stored debounced level differs from the pin level then the flag is set, so
\* a poll that finds the flag clear leaves the stored level equal to the pin.
C15_NoEdgeLost ==
  [][ /\ step' = "isr"
        => UNCHANGED << clock, eeprom, gBrightness, fastLEDBrightness, leds,
                        sCurrentState, sButtonIsPressed, sButtonPressedTime,
                        sButtonReleasedTime, sPendingReleaseCount, pc, now,
                        oldButtonIsPressed, matchingReadCount, ctxState,
                        stepFunction, frameDelay, stepFunctionPrivate,
                        frameIndex, lastCallTime, heat >>
      /\ (pc' = "loop" /\ sButtonIsPressed' # pin') => gButtonDidChange'
      /\ (PollDone /\ pc = "loop") => sButtonIsPressed' = pin' ]_vars

\* C15 witness: a poll has ended with a stale stored level, the edge having
\* come during that poll, and the flag is set for the next poll
C15_Witness ==
  /\ pc = "loop"
  /\ step = "poll"
  /\ hist.bounces = 1
  /\ sButtonIsPressed # pin
  /\ gButtonDidChange

\* C16: whenever the brightness marker is on display, its pixel index
\* brightness*(100/10)/100 - 1 is in 0..9.
C16_MarkerIndexInRange ==
  (Len(leds) = 3 /\ leds[1] = "White" /\ leds[2] = "Red") => leds[3] \in 0..9

\* C17: the first frame rendered after a change of step function (or after
\* boot) is called with frame index 0 and with the private scratch area
\* zeroed, and finds no state left by an earlier activation: the heat cells of
\* the fire simulation are zero when its first frame is computed.
C17_FreshStateOnChange ==
  [][ (hist'.rendered /\ hist.fresh)
        => /\ leds' = << "Frame", stepFunction', 0 >>
           /\ stepFunctionPrivate' = "Zero"
           /\ stepFunction' = "Fire2012" => heat = "Zero" ]_vars

\* The pairs of mode and event that neither are a listed transition nor run
\* the animation
IdlePair(mode, ev) ==
  \/ /\ ev.type = "Pressed"
     /\ mode # "RunningAnimation"
  \/ /\ ev.type \in {"None", "LongPressed"}
     /\ mode \in {"EnteringBrightnessAdjustment",
                  "EnteringAnimationFromLongPress", "RunningFlashlight"}
  \/ /\ ev.type = "None"
     /\ mode = "RunningBrightnessAdjustment"

\* An iteration of loop() that changes nothing and renders no frame
NoEffect ==
  /\ UNCHANGED << sCurrentState, gBrightness, fastLEDBrightness, eeprom,
                  ctxState, stepFunction, frameDelay, stepFunctionPrivate,
                  frameIndex, lastCallTime, heat, leds >>
  /\ ~hist'.rendered

\* C18 as stated: an iteration of loop() with Pressed in any mode, with no
\* event or LongPressed in EnteringBrightnessAdjustment,
\* EnteringAnimationFromLongPress or RunningFlashlight, or with no event in
\* RunningBrightnessAdjustment changes nothing and renders no frame.
C18_Original ==
  [][ ( /\ PollDone
        /\ \/ IdlePair(sCurrentState, buttonEvent')
           \/ buttonEvent'.type = "Pressed" )
        => NoEffect ]_vars

\* C18, amended: the same, except that Pressed in RunningAnimation is not
\* among the pairs: it runs the animation as no event does.
C18_IdlePairs ==
  [][ /\ (PollDone /\ IdlePair(sCurrentState, buttonEvent')) => NoEffect
      /\ ( /\ PollDone
           /\ sCurrentState = "RunningAnimation"
           /\ buttonEvent'.type = "Pressed" )
           => /\ sCurrentState' = "RunningAnimation"
              /\ ctxState' = "Running"
              /\ UNCHANGED << gBrightness, fastLEDBrightness, eeprom >> ]_vars

\* C18 witness: a long press has been ignored in flashlight mode
C18_Witness ==
  /\ step = "poll"
  /\ buttonEvent.type = "LongPressed"
  /\ sCurrentState = "RunningFlashlight"
  /\ fastLEDBrightness = BRIGHTNESS_FLASHLIGHT
  /\ leds = << "White" >>

\* C19: every pixel written by a rendered frame has an index in 0..30, for
\* every animation of the list and every frame index 0..255.
C19_PixelWritesInRange ==
  leds[1] = "Frame" => PixelsWritten(leds[2], leds[3]) \subseteq 0..(LED_COUNT - 1)

\* C20: whenever transitionToNextAnimation is called (RunningAnimation with
\* Released of count 1), the context is not Undefined and its step function is
\* one of the five animations, so the search stops at an index 0..4; and the
\* poll that finds the context Undefined returns None or Pressed and runs the
\* animation.
C20_CycleOnInitialisedContext ==
  [][ /\ (PollDone /\ sCurrentState = "RunningAnimation" /\ buttonEvent' = Released1)
           => /\ ctxState # "Undefined"
              /\ \E i \in 0..4 : stepFunction = kAllAnimationStepFunctions[i]
              /\ IndexOfStepFunction(stepFunction) \in 0..4
      /\ (PollDone /\ ctxState = "Undefined")
           => /\ buttonEvent'.type \in {"None", "Pressed"}
              /\ ctxState' = "Running"
              /\ stepFunction' = kAllAnimationStepFunctions[0] ]_vars

\* C20 witness: a release of the button has cycled the animation
C20_Witness ==
  /\ step = "poll"
  /\ buttonEvent = Released1
  /\ ~pin
  /\ hist.cycles = 1
  /\ ctxState = "Initialized"
  /\ stepFunction = kAllAnimationStepFunctions[1]

====
